---- MODULE Spec2Model ----
(***************************************************************************)
(* Canonicalisation of post-translational modifications (PTMs) in          *)
(* martinize2/processors/canonize_PTMs.py: find_PTM_atoms, identify_ptms,  *)
(* allowed_ptms and fix_ptm, together with the subgraph matcher whose      *)
(* contract is exercised by vermouth/tests/test_ismags.py.                 *)
(*                                                                         *)
(* Graph nodes are numbered 1..n.  A graph is iterated in ascending node   *)
(* order and a node's neighbours are iterated in ascending order; the      *)
(* initial states range over all labellings, so every such order occurs.   *)
(* Pattern nodes 0..3 of the source are nodes 1..4 here.                   *)
(***************************************************************************)
EXTENDS Integers, Sequences, FiniteSets, TLC

VARIABLES
    molecule,       \* the molecule as it was given: n, edges and the attributes
                    \* element, resid, atomname and PTM_atom of its nodes
    nodes,          \* molecule.nodes: node -> its attributes atomname, PTM_atom,
                    \* graph (the atomname the snapshot of line 266 holds, ""
                    \* when there is none) and modifications (names of PTMs)
    extra_atoms,    \* find_PTM_atoms: flagged atoms not yet put in an island
    PTMs,           \* find_PTM_atoms: list of (atoms, anchors)
    groups,         \* fix_ptm: the groups of itertools.groupby, in order
    done,           \* fix_ptm: per processed group, what identify_ptms returned
    pc,             \* position in the program
    ismags          \* the matcher under test: its inputs and its results

vars == <<molecule, nodes, extra_atoms, PTMs, groups, done, pc, ismags>>

----------------------------------------------------------------------------
(* Bounds of the model. *)

\* Largest molecule of the island-locator specification, and its most edges.
MaxLocNodes == 5
MaxLocEdges == 4
\* Largest number of residues of a molecule of the canonicalisation specification.
MaxRes == 2
\* Largest number of flagged atoms added to the backbone of such a molecule.
MaxExtra == 2
\* Largest host graph handed to the matcher under test.
MaxHost == 3
\* Largest pattern graph handed to the matcher under test that is drawn on its
\* own; a pattern cut out of the host graph is as large as the host may be.
MaxPattern == 2

----------------------------------------------------------------------------
(* Generic helpers. *)

Range(s) == {s[i] : i \in 1..Len(s)}

Min(S) == CHOOSE x \in S : \A y \in S : x <= y

\* The elements of a set of integers as an ascending list.
RECURSIVE Ascending(_)
Ascending(S) ==
    IF S = {} THEN <<>> ELSE <<Min(S)>> \o Ascending(S \ {Min(S)})

\* All sets {a, b} of two distinct nodes of 1..n.
Pairs(n) == {{a, b} : a, b \in 1..n} \ {{a} : a \in 1..n}

\* G[node]: the neighbours of a node.
Neighbours(edges, node) == {m \in UNION edges : {node, m} \in edges /\ m # node}

----------------------------------------------------------------------------
(* networkx.bfs_successors, as find_PTM_atoms uses it. *)

\* bfs_edges walks a queue of parents; a parent's not yet visited neighbours
\* become its children.  bfs_successors yields (parent, children) only for a
\* parent that has children, and (source, []) when there is no edge at all.
RECURSIVE bfs_walk(_, _, _)
bfs_walk(edges, queue, visited) ==
    IF queue = <<>> THEN <<>>
    ELSE LET parent   == Head(queue)
             children == Ascending(Neighbours(edges, parent) \ visited)
         IN  (IF children = <<>> THEN <<>> ELSE << <<parent, children>> >>)
             \o bfs_walk(edges, Tail(queue) \o children,
                         visited \cup Range(children))

bfs_successors(edges, source) ==
    LET walk == bfs_walk(edges, <<source>>, {source})
    IN  IF walk = <<>> THEN << <<source, <<>> >> >> ELSE walk

----------------------------------------------------------------------------
(* find_PTM_atoms *)

\* A variant of is_extra that reads the node's flag instead of extra_atoms.
is_extra_by_flag(orig, extra) == nodes[orig].PTM_atom

\* Line 91.
is_extra(orig, extra) == orig \in extra

\* The for loop over bfs_successors (lines 88-101).  raised: to_see.remove(orig)
\* found orig missing (KeyError).
RECURSIVE traverse(_, _, _, _, _, _)
traverse(succs, i, extra, to_see, atoms, anchors) ==
    IF i > Len(succs)
    THEN [raised |-> FALSE, atoms |-> atoms, anchors |-> anchors]
    ELSE LET orig == succs[i][1]
             succ == Range(succs[i][2])
         IN  IF orig \notin to_see
             THEN [raised |-> TRUE, atoms |-> atoms, anchors |-> anchors]
             ELSE LET seen     == to_see \ {orig}
                      to_see2  == IF is_extra(orig, extra) THEN seen \cup succ ELSE seen
                      atoms2   == IF is_extra(orig, extra) THEN atoms \cup {orig} ELSE atoms
                      anchors2 == IF is_extra(orig, extra) THEN anchors ELSE anchors \cup {orig}
                  IN  IF to_see2 = {}
                      THEN [raised |-> FALSE, atoms |-> atoms2, anchors |-> anchors2]
                      ELSE traverse(succs, i + 1, extra, to_see2, atoms2, anchors2)

\* One pass of the while loop for the seed `first` (lines 80-103).
branch(first) ==
    traverse(bfs_successors(molecule.edges, first), 1, extra_atoms, {first}, {}, {})

\* The nodes whose PTM_atom attribute is true (lines 76-77).
Flagged(mol) == {n_idx \in 1..mol.n : mol.PTM_atom[n_idx]}

\* Line 102.
remaining(extra, atoms) == extra \ atoms

----------------------------------------------------------------------------
(* The pattern library (lines 13-28). *)

n_term ==
    [name     |-> "N-terminus",
     n        |-> 4,
     edges    |-> {{1, 2}, {1, 3}, {1, 4}},
     atomname |-> <<"N", "HN", "HN2", "HN3">>,
     element  |-> <<"N", "H", "H", "H">>,
     PTM_atom |-> <<FALSE, FALSE, TRUE, TRUE>>,
     rename   |-> (2 :> "HN1")]

c_term ==
    [name     |-> "C-terminus",
     n        |-> 3,
     edges    |-> {{1, 2}, {1, 3}},
     atomname |-> <<"C", "O", "OC2">>,
     element  |-> <<"C", "O", "O">>,
     PTM_atom |-> <<FALSE, FALSE, TRUE>>,
     rename   |-> (2 :> "OC1")]

KNOWN_PTMS == <<n_term, c_term>>

----------------------------------------------------------------------------
(* PTMGraphMatcher (lines 31-50) over networkx's GraphMatcher. *)

\* node1 is a node of the residue (G1), node2 a node of the pattern ptm (G2).
semantic_feasibility(node1, node2, ptm) ==
    IF nodes[node1].PTM_atom = ptm.PTM_atom[node2]
    THEN IF ptm.PTM_atom[node2]
         THEN molecule.element[node1] = ptm.element[node2]
         ELSE nodes[node1].atomname = ptm.atomname[node2]
    ELSE FALSE

\* GraphMatcher's syntactic feasibility for subgraph isomorphism: the candidate
\* is unused and is joined to the images of the mapped pattern nodes exactly as
\* the pattern node is joined to those pattern nodes.
syntactic_feasibility(core, node1, node2, ptm) ==
    /\ node1 \notin Range(core)
    /\ \A q \in 1..Len(core) :
          ({core[q], node1} \in molecule.edges) <=> ({q, node2} \in ptm.edges)

\* The matches in the order the search yields them: pattern nodes are mapped
\* in ascending order, each to the residue's nodes in ascending order.  A
\* match is the list of residue nodes the pattern nodes 1..n map to; the keys
\* of the source's dict are its range.
RECURSIVE match_from(_, _, _, _)
match_from(residue, ptm, core, candidates) ==
    IF Len(core) = ptm.n THEN <<core>>
    ELSE IF candidates = <<>> THEN <<>>
    ELSE LET node1 == Head(candidates)
             node2 == Len(core) + 1
         IN  (IF /\ syntactic_feasibility(core, node1, node2, ptm)
                 /\ semantic_feasibility(node1, node2, ptm)
              THEN match_from(residue, ptm, Append(core, node1), Ascending(residue))
              ELSE <<>>)
             \o match_from(residue, ptm, core, Tail(candidates))

subgraph_isomorphisms_iter(residue, ptm) ==
    match_from(residue, ptm, <<>>, Ascending(residue))

subgraph_is_isomorphic(residue, ptm) ==
    subgraph_isomorphisms_iter(residue, ptm) # <<>>

----------------------------------------------------------------------------
(* identify_ptms (lines 138-168).  residue is the node set of the residue    *)
(* subgraph, residue_ptms a list of [atoms, anchors], options a list of      *)
(* patterns (each stands for the pair of the pattern and its matcher).       *)

\* A variant of nothing_left that looks at the first island only.
nothing_left_in_first(residue_ptms) ==
    residue_ptms = <<>> \/ residue_ptms[1].atoms = {}

\* BASECASE (line 139): no island has an atom left.
nothing_left(residue_ptms) ==
    \A i \in 1..Len(residue_ptms) : residue_ptms[i].atoms = {}

\* Lines 148-152.
available(residue, residue_ptms) ==
    {n_idx \in residue : ~nodes[n_idx].PTM_atom}
        \cup UNION {residue_ptms[i].atoms : i \in 1..Len(residue_ptms)}

\* Line 161.
is_available(matching, avail) == matching \subseteq avail

\* Lines 162-164.
new_res_ptms(residue_ptms, matching) ==
    [i \in 1..Len(residue_ptms) |->
        [atoms   |-> residue_ptms[i].atoms \ matching,
         anchors |-> residue_ptms[i].anchors]]

\* The two nested for loops (lines 143-161): the first option, and its first
\* match, that lies within the available atoms.
RECURSIVE first_match(_, _)
first_match(matches, avail) ==
    IF matches = <<>> THEN <<>>
    ELSE IF is_available(Range(Head(matches)), avail) THEN <<Head(matches)>>
    ELSE first_match(Tail(matches), avail)

RECURSIVE first_option(_, _, _, _)
first_option(residue, options, idx, avail) ==
    IF idx > Len(options) THEN [found |-> FALSE, idx |-> idx, match |-> <<>>]
    ELSE LET m == first_match(subgraph_isomorphisms_iter(residue, options[idx]), avail)
         IN  IF m # <<>> THEN [found |-> TRUE, idx |-> idx, match |-> m[1]]
             ELSE first_option(residue, options, idx + 1, avail)

\* options[idx:] (line 167).
options_from(options, idx) == SubSeq(options, idx, Len(options))

RECURSIVE identify_ptms(_, _, _)
identify_ptms(residue, residue_ptms, options) ==
    IF nothing_left(residue_ptms) THEN [raised |-> FALSE, out |-> <<>>]
    ELSE LET pick == first_option(residue, options, 1,
                                  available(residue, residue_ptms))
         IN  IF ~pick.found THEN [raised |-> TRUE, out |-> <<>>]
             ELSE LET rest == identify_ptms(
                                  residue,
                                  new_res_ptms(residue_ptms, Range(pick.match)),
                                  options_from(options, pick.idx))
                  IN  IF rest.raised THEN rest
                      ELSE [raised |-> FALSE,
                            out    |-> <<[ptm   |-> options[pick.idx],
                                          match |-> pick.match]>> \o rest.out]

----------------------------------------------------------------------------
(* allowed_ptms (lines 191-194) and the sort of line 257. *)

RECURSIVE allowed_ptms(_, _)
allowed_ptms(residue, known_ptms) ==
    IF known_ptms = <<>> THEN <<>>
    ELSE (IF subgraph_is_isomorphic(residue, Head(known_ptms))
          THEN <<Head(known_ptms)>> ELSE <<>>)
         \o allowed_ptms(residue, Tail(known_ptms))

\* sorted(options, key=len): a stable insertion sort by the number of nodes.
RECURSIVE sorted_by_len(_)
sorted_by_len(options) ==
    IF options = <<>> THEN <<>>
    ELSE LET rest  == sorted_by_len(Tail(options))
             first == Head(options)
             \* first goes before every element of rest that is not smaller
             k     == Cardinality({i \in 1..Len(rest) : rest[i].n < first.n})
         IN  SubSeq(rest, 1, k) \o <<first>> \o SubSeq(rest, k + 1, Len(rest))

----------------------------------------------------------------------------
(* fix_ptm: grouping of the islands (lines 216-233). *)

\* sorted(resid of the anchors): the resids in ascending order, one entry per
\* anchor.
RECURSIVE sorted_resids(_)
sorted_resids(node_idxs) ==
    IF node_idxs = {} THEN <<>>
    ELSE LET low == Min({molecule.resid[idx] : idx \in node_idxs})
             idx == CHOOSE i \in node_idxs : molecule.resid[i] = low
         IN  <<low>> \o sorted_resids(node_idxs \ {idx})

\* A variant of key_func that keeps one entry per residue, however many
\* anchors the island has in it.
key_func_as_set(ptm_atoms) ==
    LET rs == {molecule.resid[a] : a \in ptm_atoms.anchors}
    IN  sorted_resids({CHOOSE a \in ptm_atoms.anchors : molecule.resid[a] = r
                       : r \in rs})

\* Line 218-220.
key_func(ptm_atoms) == sorted_resids(ptm_atoms.anchors)

\* Python's order on lists of integers.
RECURSIVE list_lt(_, _)
list_lt(a, b) ==
    IF b = <<>> THEN FALSE
    ELSE IF a = <<>> THEN TRUE
    ELSE IF Head(a) # Head(b) THEN Head(a) < Head(b)
    ELSE list_lt(Tail(a), Tail(b))

\* sorted(PTM_atoms, key=key_func) (line 222): a stable sort.
RECURSIVE sorted_by_key(_)
sorted_by_key(islands) ==
    IF islands = <<>> THEN <<>>
    ELSE LET rest  == sorted_by_key(Tail(islands))
             first == Head(islands)
             k     == Cardinality({i \in 1..Len(rest) :
                                      list_lt(key_func(rest[i]), key_func(first))})
         IN  SubSeq(rest, 1, k) \o <<first>> \o SubSeq(rest, k + 1, Len(rest))

\* itertools.groupby(ptm_atoms, key_func) (line 233): runs of equal keys.
RECURSIVE groupby(_)
groupby(ptm_atoms) ==
    IF ptm_atoms = <<>> THEN <<>>
    ELSE LET resids == key_func(Head(ptm_atoms))
             differ == {i \in 1..Len(ptm_atoms) : key_func(ptm_atoms[i]) # resids}
             run    == IF differ = {} THEN Len(ptm_atoms) ELSE Min(differ) - 1
         IN  <<[resids |-> resids, res_ptms |-> SubSeq(ptm_atoms, 1, run)]>>
             \o groupby(SubSeq(ptm_atoms, run + 1, Len(ptm_atoms)))

\* Lines 224-228 and 249-251: the nodes of the residues named by resids.
n_idxs(resids) ==
    {n_idx \in 1..molecule.n : molecule.resid[n_idx] \in Range(resids)}

----------------------------------------------------------------------------
(* fix_ptm: applying the identified PTMs (lines 261-273). *)

\* A variant of new_name that ignores the rename attribute.
new_name_without_rename(ptm, ptm_idx) == ptm.atomname[ptm_idx]

\* Line 267.
new_name(ptm, ptm_idx) ==
    IF ptm_idx \in DOMAIN ptm.rename THEN ptm.rename[ptm_idx]
    ELSE ptm.atomname[ptm_idx]

\* Line 265.
is_renamed(ptm, ptm_idx) ==
    ptm.PTM_atom[ptm_idx] \/ ptm_idx \in DOMAIN ptm.rename

\* The molecule nodes one match renames.
renamed_by(ptm, match) ==
    {match[ptm_idx] : ptm_idx \in {i \in 1..ptm.n : is_renamed(ptm, i)}}

\* A variant of rename_node that also clears the node's flag.
rename_node_and_unflag(mol_node, name) ==
    [mol_node EXCEPT !.graph = mol_node.atomname, !.atomname = name,
                     !.PTM_atom = FALSE]

\* Lines 266-270 for one node: the snapshot holds the node as it was, and the
\* node gets its new name.
rename_node(mol_node, name) ==
    [mol_node EXCEPT !.graph = mol_node.atomname, !.atomname = name]

\* Lines 272-273 for one node.
append_modification(mol_node, ptm) ==
    [mol_node EXCEPT !.modifications = Append(mol_node.modifications, ptm.name)]

\* The body of the loop over identified (lines 262-273) for one (ptm, match);
\* residue_nodes is n_idxs.
apply_one(nds, ptm, match, residue_nodes) ==
    LET renamed == [mol_idx \in DOMAIN nds |->
                       IF mol_idx \in renamed_by(ptm, match)
                       THEN rename_node(nds[mol_idx],
                                new_name(ptm, CHOOSE i \in 1..ptm.n : match[i] = mol_idx))
                       ELSE nds[mol_idx]]
    IN  [n_idx \in DOMAIN nds |->
            IF n_idx \in residue_nodes THEN append_modification(renamed[n_idx], ptm)
            ELSE renamed[n_idx]]

\* Lines 261-273.
RECURSIVE apply_all(_, _, _)
apply_all(nds, identified, residue_nodes) ==
    IF identified = <<>> THEN nds
    ELSE apply_all(apply_one(nds, Head(identified).ptm, Head(identified).match,
                             residue_nodes),
                   Tail(identified), residue_nodes)

\* Lines 254-258 for the group whose key is resids.
identified_for(group) ==
    identify_ptms(n_idxs(group.resids), group.res_ptms,
                  sorted_by_len(allowed_ptms(n_idxs(group.resids), KNOWN_PTMS)))

----------------------------------------------------------------------------
(* The molecules the specifications start from. *)

\* The input of find_PTM_atoms, which reads the edges and the PTM_atom flags
\* only: a graph of n nodes with the edges e and the flags f.
LocMolecule(n, e, f) ==
    [n        |-> n,
     edges    |-> e,
     atomname |-> [i \in 1..n |-> "X"],
     element  |-> [i \in 1..n |-> "X"],
     PTM_atom |-> f,
     resid    |-> [i \in 1..n |-> 1]]

\* A chain of residues N(-HN)-C(-O), residue r on the nodes 4r-3..4r, each C
\* bonded to the N of the next residue.
BackboneNames == <<"N", "HN", "C", "O">>
BackboneElements == <<"N", "H", "C", "O">>
BackboneEdges(R) ==
    UNION {{{4 * r - 3, 4 * r - 2}, {4 * r - 3, 4 * r - 1}, {4 * r - 1, 4 * r}} :
              r \in 1..R}
        \cup {{4 * r - 1, 4 * r + 1} : r \in 1..(R - 1)}

\* What an unrecognised atom can be: the name it came with and its element.
FlaggedKinds ==
    {[atomname |-> "HN2", element |-> "H"],
     [atomname |-> "HN3", element |-> "H"],
     [atomname |-> "OC2", element |-> "O"]}

\* An unrecognised atom is bonded to one atom of the backbone, or bridges two
\* atoms of the backbone that are bonded to each other.
AttachSets(R) == {{a} : a \in 1..(4 * R)} \cup BackboneEdges(R)

\* The backbone of R residues with the flagged atoms 4R+1..4R+k; a flagged
\* atom belongs to the residue of the first atom it is bonded to.
Decorated(R, k, kinds, attach) ==
    [n        |-> 4 * R + k,
     edges    |-> BackboneEdges(R)
                    \cup UNION {{{4 * R + i, a} : a \in attach[i]} : i \in 1..k},
     atomname |-> [i \in 1..(4 * R + k) |->
                      IF i <= 4 * R THEN BackboneNames[((i - 1) % 4) + 1]
                      ELSE kinds[i - 4 * R].atomname],
     element  |-> [i \in 1..(4 * R + k) |->
                      IF i <= 4 * R THEN BackboneElements[((i - 1) % 4) + 1]
                      ELSE kinds[i - 4 * R].element],
     PTM_atom |-> [i \in 1..(4 * R + k) |-> i > 4 * R],
     resid    |-> [i \in 1..(4 * R + k) |->
                      IF i <= 4 * R THEN ((i - 1) \div 4) + 1
                      ELSE ((Min(attach[i - 4 * R]) - 1) \div 4) + 1]]

\* Two nitrogens of one residue whose flagged hydrogens 5..8 are each bonded to
\* a second atom; hydrogen 6 is bonded to both nitrogens.
TwoAmines ==
    [n        |-> 8,
     edges    |-> {{1, 2}, {3, 4}, {1, 5}, {1, 6}, {1, 7}, {3, 6}, {3, 8},
                   {5, 4}, {7, 4}, {8, 2}},
     atomname |-> <<"N", "HN", "N", "HN", "HN2", "HN3", "HN2", "HN3">>,
     element  |-> <<"N", "H", "N", "H", "H", "H", "H", "H">>,
     PTM_atom |-> <<FALSE, FALSE, FALSE, FALSE, TRUE, TRUE, TRUE, TRUE>>,
     resid    |-> <<1, 1, 1, 1, 1, 1, 1, 1>>]

----------------------------------------------------------------------------
(* The state after construction: find_PTM_atoms is about to enter its loop. *)

Start(mol) ==
    /\ molecule = mol
    /\ nodes = [n_idx \in 1..mol.n |->
                   [atomname      |-> mol.atomname[n_idx],
                    PTM_atom      |-> mol.PTM_atom[n_idx],
                    graph         |-> "",
                    modifications |-> <<>>]]
    /\ extra_atoms = Flagged(mol)
    /\ PTMs = <<>>
    /\ groups = <<>>
    /\ done = <<>>
    /\ pc = "locate"
    /\ ismags = [pc |-> "unused"]

\* fix_ptm is given a decorated backbone or the two amines.
Init ==
    \/ \E R \in 1..MaxRes, k \in 0..MaxExtra :
          \E kinds \in [1..k -> FlaggedKinds], attach \in [1..k -> AttachSets(R)] :
             Start(Decorated(R, k, kinds, attach))
    \/ Start(TwoAmines)

\* find_PTM_atoms is given any graph of at most MaxLocNodes nodes and
\* MaxLocEdges edges with any of its nodes flagged.
InitLocate ==
    \E n \in 1..MaxLocNodes :
       \E e \in SUBSET Pairs(n), f \in [1..n -> BOOLEAN] :
          /\ Cardinality(e) <= MaxLocEdges
          /\ Start(LocMolecule(n, e, f))

----------------------------------------------------------------------------
(* find_PTM_atoms: one pass of the while loop (lines 79-103). *)

FindBranch ==
    /\ pc = "locate"
    /\ \E first \in extra_atoms :
          LET found == branch(first)
          IN  /\ ~found.raised
              /\ extra_atoms' = remaining(extra_atoms, found.atoms)
              /\ PTMs' = Append(PTMs, [atoms |-> found.atoms, anchors |-> found.anchors])
    /\ UNCHANGED <<molecule, nodes, groups, done, pc, ismags>>

\* to_see.remove(orig) raises KeyError (line 90); nothing catches it.
FindRaise ==
    /\ pc = "locate"
    /\ \E first \in extra_atoms : branch(first).raised
    /\ pc' = "KeyError in find_PTM_atoms"
    /\ UNCHANGED <<molecule, nodes, extra_atoms, PTMs, groups, done, ismags>>

\* The loop ends and PTMs is returned (line 104).
FindReturn ==
    /\ pc = "locate"
    /\ extra_atoms = {}
    /\ pc' = "located"
    /\ UNCHANGED <<molecule, nodes, extra_atoms, PTMs, groups, done, ismags>>

----------------------------------------------------------------------------
(* fix_ptm *)

\* Lines 216-233: sort the islands and group them.
Group ==
    /\ pc = "located"
    /\ groups' = groupby(sorted_by_key(PTMs))
    /\ pc' = "resolve"
    /\ UNCHANGED <<molecule, nodes, extra_atoms, PTMs, done, ismags>>

\* The body of the for loop for the next group (lines 248-273).
FixGroup ==
    /\ pc = "resolve"
    /\ Len(done) < Len(groups)
    /\ LET group == groups[Len(done) + 1]
           res   == identified_for(group)
       IN  /\ ~res.raised
           /\ nodes' = apply_all(nodes, res.out, n_idxs(group.resids))
           /\ done' = Append(done, [resids     |-> group.resids,
                                    res_ptms   |-> group.res_ptms,
                                    identified |-> res.out])
    /\ UNCHANGED <<molecule, extra_atoms, PTMs, groups, pc, ismags>>

\* A variant of FixRaise that undoes what the earlier groups did.
FixRaiseAndRollBack ==
    /\ pc = "resolve"
    /\ Len(done) < Len(groups)
    /\ identified_for(groups[Len(done) + 1]).raised
    /\ pc' = "KeyError in identify_ptms"
    /\ nodes' = [n_idx \in 1..molecule.n |->
                    [atomname      |-> molecule.atomname[n_idx],
                     PTM_atom      |-> molecule.PTM_atom[n_idx],
                     graph         |-> "",
                     modifications |-> <<>>]]
    /\ UNCHANGED <<molecule, extra_atoms, PTMs, groups, done, ismags>>

\* identify_ptms raises KeyError (line 168); fix_ptm does not catch it.
FixRaise ==
    /\ pc = "resolve"
    /\ Len(done) < Len(groups)
    /\ identified_for(groups[Len(done) + 1]).raised
    /\ pc' = "KeyError in identify_ptms"
    /\ UNCHANGED <<molecule, nodes, extra_atoms, PTMs, groups, done, ismags>>

\* Every group is done: fix_ptm returns None (line 274).
FixReturn ==
    /\ pc = "resolve"
    /\ Len(done) = Len(groups)
    /\ pc' = "returned"
    /\ UNCHANGED <<molecule, nodes, extra_atoms, PTMs, groups, done, ismags>>

Next == FindBranch \/ FindRaise \/ FindReturn \/ Group \/ FixGroup \/ FixRaise \/ FixReturn

Spec == Init /\ [][Next]_vars

NextLocate == FindBranch \/ FindRaise \/ FindReturn

SpecLocate == InitLocate /\ [][NextLocate]_vars

----------------------------------------------------------------------------
(* vermouth.ismags.ISMAGS, whose find_subgraphs the tests of                 *)
(* vermouth/tests/test_ismags.py compare with networkx's GraphMatcher.  A    *)
(* graph is [n, edges, element]; the tests' node_match compares 'element'.   *)
(* A mapping takes the nodes of the subgraph to nodes of the graph.          *)

\* categorical_node_match('element', None) (test_ismags.py, line 120).
node_match(graph_, gn, subgraph_, sgn) == graph_.element[gn] = subgraph_.element[sgn]

Degree(graph_, node) == Cardinality(Neighbours(graph_.edges, node))

\* The automorphisms of the subgraph: the permutations of its nodes that keep
\* the edges and the elements.
automorphisms(subgraph_) ==
    {perm \in [1..subgraph_.n -> 1..subgraph_.n] :
        /\ \A a, b \in 1..subgraph_.n : a # b => perm[a] # perm[b]
        /\ \A a \in 1..subgraph_.n : subgraph_.element[perm[a]] = subgraph_.element[a]
        /\ \A a, b \in 1..subgraph_.n :
              ({a, b} \in subgraph_.edges) <=> ({perm[a], perm[b]} \in subgraph_.edges)}

\* A variant of stabiliser that keeps the whole group.
no_stabiliser(group, node) == group

\* The automorphisms of a group that keep a node in place.
stabiliser(group, node) == {perm \in group : perm[node] = node}

\* analyze_symmetry: the ordering constraints.  The nodes are taken in
\* ascending order; a node must map below every other node of its orbit under
\* the automorphisms that keep the earlier nodes in place.
RECURSIVE symmetry_constraints(_, _, _)
symmetry_constraints(subgraph_, group, node) ==
    IF node > subgraph_.n THEN {}
    ELSE {<<node, perm[node]>> : perm \in {q \in group : q[node] # node}}
         \cup symmetry_constraints(subgraph_, stabiliser(group, node), node + 1)

analyze_symmetry(subgraph_) ==
    symmetry_constraints(subgraph_, automorphisms(subgraph_), 1)

\* A variant of consistent that only asks that edges map to edges.
edges_preserved(graph_, subgraph_, mapping, sgn, gn) ==
    \A sgn2 \in DOMAIN mapping :
        ({sgn, sgn2} \in subgraph_.edges) => ({gn, mapping[sgn2]} \in graph_.edges)

\* The candidate is joined to the images of the mapped nodes exactly as the
\* subgraph node is joined to those nodes.
consistent(graph_, subgraph_, mapping, sgn, gn) ==
    \A sgn2 \in DOMAIN mapping :
        ({sgn, sgn2} \in subgraph_.edges) <=> ({gn, mapping[sgn2]} \in graph_.edges)

\* The graph nodes a subgraph node can still be mapped to.
candidates_for(graph_, subgraph_, constraints, mapping, sgn) ==
    {gn \in (1..graph_.n) \ {mapping[q] : q \in DOMAIN mapping} :
        /\ node_match(graph_, gn, subgraph_, sgn)
        /\ Degree(graph_, gn) >= Degree(subgraph_, sgn)
        /\ consistent(graph_, subgraph_, mapping, sgn, gn)
        /\ \A sgn2 \in DOMAIN mapping :
              /\ <<sgn, sgn2>> \in constraints => gn < mapping[sgn2]
              /\ <<sgn2, sgn>> \in constraints => mapping[sgn2] < gn}

\* The backtracking search: the subgraph node with the fewest candidates is
\* mapped next, to each of its candidates in turn.
RECURSIVE map_nodes(_, _, _, _)
map_nodes(graph_, subgraph_, constraints, mapping) ==
    LET left == (1..subgraph_.n) \ DOMAIN mapping
        count(sgn) == Cardinality(candidates_for(graph_, subgraph_, constraints, mapping, sgn))
    IN  IF left = {} THEN {mapping}
        ELSE LET sgn == CHOOSE q \in left :
                            \A r \in left :
                                \/ count(q) < count(r)
                                \/ count(q) = count(r) /\ q <= r
             IN  UNION {map_nodes(graph_, subgraph_, constraints, mapping @@ (sgn :> gn)) :
                           gn \in candidates_for(graph_, subgraph_, constraints, mapping, sgn)}

\* ISMAGS(graph, subgraph, node_match).find_subgraphs(symmetry).
find_subgraphs(graph_, subgraph_, symmetry) ==
    map_nodes(graph_, subgraph_,
              IF symmetry THEN analyze_symmetry(subgraph_) ELSE {}, <<>>)

\* The reference of the tests, GraphMatcher(graph, subgraph, node_match)
\* .subgraph_isomorphisms_iter(), by brute force: every injective mapping that
\* keeps the elements and maps edges to edges and non-edges to non-edges.
reference_isomorphisms(graph_, subgraph_) ==
    {mapping \in [1..subgraph_.n -> 1..graph_.n] :
        /\ \A a, b \in 1..subgraph_.n : a # b => mapping[a] # mapping[b]
        /\ \A a \in 1..subgraph_.n : node_match(graph_, mapping[a], subgraph_, a)
        /\ \A a, b \in 1..subgraph_.n :
              a # b => (({a, b} \in subgraph_.edges)
                          <=> ({mapping[a], mapping[b]} \in graph_.edges))}

\* The elements the generated graphs draw from.
Elements == {0, 1}

\* graph.subgraph(nodes) (lines 189 and 219), its nodes renumbered in
\* ascending order.
induced_subgraph(graph_, nodes_) ==
    LET idx == Ascending(nodes_)
    IN  [n       |-> Len(idx),
         edges   |-> {e \in Pairs(Len(idx)) : {idx[i] : i \in e} \in graph_.edges},
         element |-> [i \in 1..Len(idx) |-> graph_.element[idx[i]]]]

\* The tests draw any graph, and a subgraph that is either drawn on its own
\* (lines 108 and 133) or cut out of the graph (lines 186-189 and 216-219; the
\* graph itself at lines 69 and 82).
InitIsmags ==
    /\ molecule = LocMolecule(0, {}, <<>>)
    /\ nodes = <<>>
    /\ extra_atoms = {}
    /\ PTMs = <<>>
    /\ groups = <<>>
    /\ done = <<>>
    /\ pc = "test_ismags"
    /\ \E n1 \in 0..MaxHost :
          \E e1 \in SUBSET Pairs(n1), c1 \in [1..n1 -> Elements] :
             LET graph_ == [n |-> n1, edges |-> e1, element |-> c1]
             IN  \/ \E n2 \in 0..MaxPattern :
                       \E e2 \in SUBSET Pairs(n2), c2 \in [1..n2 -> Elements] :
                          ismags = [pc       |-> "built",
                                    graph    |-> graph_,
                                    subgraph |-> [n |-> n2, edges |-> e2, element |-> c2],
                                    symmetry |-> FALSE,
                                    found    |-> {}]
                 \/ \E nodes_ \in SUBSET (1..n1) :
                       ismags = [pc       |-> "built",
                                 graph    |-> graph_,
                                 subgraph |-> induced_subgraph(graph_, nodes_),
                                 symmetry |-> FALSE,
                                 found    |-> {}]

\* found = make_into_set(ismags.find_subgraphs(symmetry)).
FindSubgraphs ==
    /\ ismags.pc = "built"
    /\ \E symmetry \in BOOLEAN :
          ismags' = [ismags EXCEPT
                        !.pc = "found",
                        !.symmetry = symmetry,
                        !.found = find_subgraphs(ismags.graph, ismags.subgraph, symmetry)]
    /\ UNCHANGED <<molecule, nodes, extra_atoms, PTMs, groups, done, pc>>

SpecIsmags == InitIsmags /\ [][FindSubgraphs]_vars

----------------------------------------------------------------------------
(* What the claims speak of. *)

\* The unresolved atoms of a group: the atoms of its islands.
unresolved(res_ptms) == UNION {res_ptms[i].atoms : i \in 1..Len(res_ptms)}

\* The atom image of a returned (ptm, match): the keys of the mapping.
image(m) == Range(m.match)

\* The atoms of an image that the molecule came with flagged.
flagged_image(m) == {n_idx \in image(m) : molecule.PTM_atom[n_idx]}

\* The flagged nodes joined to a node of S by a path of flagged nodes.
RECURSIVE flagged_component(_)
flagged_component(S) ==
    LET more == {n_idx \in Flagged(molecule) \ S :
                    \E a \in S : {a, n_idx} \in molecule.edges}
    IN  IF more = {} THEN S ELSE flagged_component(S \cup more)

\* The unflagged neighbours of a set of atoms.
unflagged_neighbours(atoms) ==
    {n_idx \in (1..molecule.n) \ Flagged(molecule) :
        \E a \in atoms : {a, n_idx} \in molecule.edges}

\* Every embedding of every candidate pattern of a group.
candidates(group) ==
    LET residue == n_idxs(group.resids)
        options == sorted_by_len(allowed_ptms(residue, KNOWN_PTMS))
    IN  UNION {{[ptm |-> options[o], match |-> m] :
                   m \in Range(subgraph_isomorphisms_iter(residue, options[o]))} :
               o \in 1..Len(options)}

\* Some embeddings cover the unresolved atoms of the group exactly.
exact_cover_exists(group) ==
    \E Q \in SUBSET candidates(group) :
        /\ \A m1, m2 \in Q : m1 # m2 => flagged_image(m1) \cap flagged_image(m2) = {}
        /\ UNION {flagged_image(m) : m \in Q} = unresolved(group.res_ptms)

\* The nodes of the residues of the groups fix_ptm has processed.
processed_nodes == UNION {n_idxs(done[g].resids) : g \in 1..Len(done)}

\* Scenario A: one residue whose N carries HN and two flagged hydrogens that
\* came named HN2 and HN3 (nodes 5 and 6, in either order).
ScenarioA ==
    /\ molecule.n = 6
    /\ molecule.edges = BackboneEdges(1) \cup {{1, 5}, {1, 6}}
    /\ {molecule.atomname[5], molecule.atomname[6]} = {"HN2", "HN3"}

\* In scenario A exactly the N-terminus was recognised; N kept its name, HN
\* became HN1, and N, HN1 and both hydrogens got N-terminus appended.
ScenarioA_Recognised ==
    /\ Len(done) = 1
    /\ Len(done[1].identified) = 1
    /\ done[1].identified[1].ptm = n_term
    /\ nodes[1].atomname = "N"
    /\ nodes[2].atomname = "HN1"
    /\ \A n_idx \in {1, 2, 5, 6} : nodes[n_idx].modifications = <<"N-terminus">>

----------------------------------------------------------------------------
(* The claims. *)

\* C1, as stated: whenever identify_ptms returns for a group, the atom images
\* (key sets) of the returned matches are pairwise disjoint and their union is
\* exactly the group's unresolved-atom set.
C1_ImagesPartitionUnresolved ==
    \A g \in 1..Len(done) :
        LET identified == done[g].identified
        IN  /\ \A i, j \in 1..Len(identified) :
                  i # j => image(identified[i]) \cap image(identified[j]) = {}
            /\ UNION {image(identified[i]) : i \in 1..Len(identified)}
                   = unresolved(done[g].res_ptms)

\* C1, amended: whenever identify_ptms returns for a group, the flagged atoms
\* of the images of the returned matches are pairwise disjoint and their union
\* is exactly the group's unresolved-atom set (the images also hold unflagged
\* anchor atoms, which matches may share).
C1_FlaggedImagesPartitionUnresolved ==
    \A g \in 1..Len(done) :
        LET identified == done[g].identified
        IN  /\ \A i, j \in 1..Len(identified) :
                  i # j => flagged_image(identified[i]) \cap flagged_image(identified[j]) = {}
            /\ UNION {flagged_image(identified[i]) : i \in 1..Len(identified)}
                   = unresolved(done[g].res_ptms)

\* identify_ptms returned two matches for one group.
C1_Witness ==
    \E g \in 1..Len(done) : Len(done[g].identified) >= 2

\* C2: the islands find_PTM_atoms returns partition the flagged nodes: their
\* union is the set of all nodes with PTM_atom true and no two of them share
\* an atom, whichever seeds were picked.
C2_IslandsPartitionFlagged ==
    pc = "located" =>
        /\ UNION {PTMs[i].atoms : i \in 1..Len(PTMs)} = Flagged(molecule)
        /\ \A i, j \in 1..Len(PTMs) :
              i # j => PTMs[i].atoms \cap PTMs[j].atoms = {}

\* find_PTM_atoms returned several islands, one of them of several atoms.
C2_Witness ==
    /\ pc = "located"
    /\ Len(PTMs) >= 2
    /\ \E i \in 1..Len(PTMs) : Cardinality(PTMs[i].atoms) >= 2

\* C3: the anchors of every island find_PTM_atoms returns are exactly the
\* unflagged nodes adjacent to an atom of the island.
C3_AnchorsAreUnflaggedNeighbours ==
    pc = "located" =>
        \A i \in 1..Len(PTMs) :
            PTMs[i].anchors = unflagged_neighbours(PTMs[i].atoms)

\* C4: every island find_PTM_atoms returns is one whole connected component of
\* the subgraph of the flagged nodes.
C4_IslandsAreFlaggedComponents ==
    pc = "located" =>
        \A i \in 1..Len(PTMs) :
            \A a \in PTMs[i].atoms : PTMs[i].atoms = flagged_component({a})

\* C5, as stated: after fix_ptm returns, no node covered by an accepted match
\* still has PTM_atom true.
C5_CoveredAtomsUnflagged ==
    pc = "returned" =>
        \A g \in 1..Len(done) :
            \A i \in 1..Len(done[g].identified) :
                \A n_idx \in image(done[g].identified[i]) : ~nodes[n_idx].PTM_atom

\* C5, amended: after fix_ptm returns, every node has the PTM_atom flag it came
\* with; the flagged atoms covered by the accepted matches are still flagged.
C5_FlagsUntouched ==
    pc = "returned" =>
        \A n_idx \in 1..molecule.n : nodes[n_idx].PTM_atom = molecule.PTM_atom[n_idx]

\* fix_ptm returned after a match covered and renamed a flagged atom.
C5_Witness ==
    /\ pc = "returned"
    /\ \E g \in 1..Len(done) :
          \E i \in 1..Len(done[g].identified) :
              \E n_idx \in flagged_image(done[g].identified[i]) :
                  nodes[n_idx].graph # ""

\* C8, as stated: in scenario A the N-terminus is recognised, HN becomes HN1,
\* and the atom named HN2 stays HN2 and the atom named HN3 stays HN3.
C8_ScenarioA_KeepsNames ==
    (ScenarioA /\ pc = "returned") =>
        /\ ScenarioA_Recognised
        /\ nodes[5].atomname = molecule.atomname[5]
        /\ nodes[6].atomname = molecule.atomname[6]

\* C8, amended: in scenario A the N-terminus is recognised, HN becomes HN1, and
\* the two flagged hydrogens end up named HN2 and HN3, one each: the one the
\* first embedding maps to the pattern's HN2 (the first in node order) is named
\* HN2 and the other HN3, whatever they were named before.
C8_ScenarioA_CanonicalNames ==
    (ScenarioA /\ pc = "returned") =>
        /\ ScenarioA_Recognised
        /\ nodes[5].atomname = "HN2"
        /\ nodes[6].atomname = "HN3"

\* Scenario A was resolved for a molecule whose first flagged hydrogen came
\* named HN3.
C8_Witness ==
    /\ ScenarioA
    /\ pc = "returned"
    /\ molecule.atomname[5] = "HN3"

\* C9: identify_ptms raises only if no combination of embeddings of the
\* candidate patterns exactly covers the group's unresolved atoms.
C9_RaisesOnlyWithoutCover ==
    pc = "KeyError in identify_ptms" => ~exact_cover_exists(groups[Len(done) + 1])

\* What C10 says of the state in which identify_ptms has raised.
C10_State ==
    pc = "KeyError in identify_ptms" =>
        /\ Len(done) < Len(groups)
        /\ \A g \in 1..Len(done) :
              \A i \in 1..Len(done[g].identified) :
                  LET m == done[g].identified[i]
                  IN  /\ \A ptm_idx \in 1..m.ptm.n :
                            is_renamed(m.ptm, ptm_idx) =>
                                nodes[m.match[ptm_idx]].atomname = new_name(m.ptm, ptm_idx)
                      /\ \A n_idx \in n_idxs(done[g].resids) :
                            m.ptm.name \in Range(nodes[n_idx].modifications)
        /\ \A g \in (Len(done) + 1)..Len(groups) :
              \A n_idx \in unresolved(groups[g].res_ptms) :
                  nodes[n_idx].atomname = molecule.atomname[n_idx]
        /\ \A n_idx \in (1..molecule.n) \ processed_nodes :
              nodes[n_idx].atomname = molecule.atomname[n_idx]

\* C10: when identify_ptms raises for a group, fix_ptm stops there; the renames
\* and modifications of the earlier groups are in the molecule; the atoms of
\* the failing and the later groups, and every node outside the residues of
\* the earlier groups, have the atomname they came with.
C10_FailurePropagates ==
    [](C10_State) /\ [][pc # "KeyError in identify_ptms"]_vars

\* identify_ptms raised after an earlier group had an atom renamed.
C10_Witness ==
    /\ pc = "KeyError in identify_ptms"
    /\ \E g \in 1..Len(done) : done[g].identified # <<>>
    /\ \E n_idx \in 1..molecule.n : nodes[n_idx].atomname # molecule.atomname[n_idx]


equivalent(m1, m2) ==
    \E perm \in automorphisms(ismags.subgraph) :
        \A sgn \in 1..ismags.subgraph.n : m2[sgn] = m1[perm[sgn]]

-----------------------------------------------------------------------------
(* Grouping of the islands in fix_ptm (lines 216-233, 248-258). *)

\* The residue ids the anchors of an island belong to.
anchor_residues(island) == {molecule.resid[a] : a \in island.anchors}

\* The number of anchors an island has in residue r.
anchor_count(island, r) ==
    Cardinality({a \in island.anchors : molecule.resid[a] = r})

\* Two islands have the same number of anchors in every residue.
same_anchor_counts(i, j) ==
    \A r \in anchor_residues(i) \cup anchor_residues(j) :
        anchor_count(i, r) = anchor_count(j, r)

\* The positions (group, island) of the islands in groups.
grouped_islands ==
    {p \in (1..Len(groups)) \X (1..MaxLocNodes + 2 * MaxRes + MaxExtra + 8) :
        p[2] <= Len(groups[p[1]].res_ptms)}

\* The island at a position.
island_at(p) == groups[p[1]].res_ptms[p[2]]

\* C11 as stated: islands whose anchors belong to the same set of residue
\* ids are in one residue group, handed to identify_ptms in a single call,
\* however many anchors each island has inside each residue.
C11_SameResidueSetOneGroup ==
    \A p \in grouped_islands : \A q \in grouped_islands :
        anchor_residues(island_at(p)) = anchor_residues(island_at(q))
            => p[1] = q[1]

\* C11 amended: two islands are in the same residue group, and so handed to
\* identify_ptms in the same call, exactly when they have the same number of
\* anchors in every residue; every call that has been made got exactly the
\* islands of its group.
C11_GroupedByAnchorCounts ==
    /\ \A p \in grouped_islands : \A q \in grouped_islands :
            (p[1] = q[1]) <=> same_anchor_counts(island_at(p), island_at(q))
    /\ \A g \in 1..Len(done) : done[g].res_ptms = groups[g].res_ptms

\* Two islands anchored in the same residue, with different numbers of
\* anchors in it: the first was resolved alone by one call of identify_ptms,
\* and the call for the second, alone as well, has raised.
C11_Witness ==
    /\ pc = "KeyError in identify_ptms"
    /\ Len(done) >= 1
    /\ \E p \in grouped_islands : \E q \in grouped_islands :
            /\ p[1] <= Len(done)
            /\ q[1] = Len(done) + 1
            /\ anchor_residues(island_at(p)) # {}
            /\ anchor_residues(island_at(p)) = anchor_residues(island_at(q))
            /\ ~same_anchor_counts(island_at(p), island_at(q))

-----------------------------------------------------------------------------
(* find_PTM_atoms and the pending set to_see (lines 79-104). *)

\* C12 as stated: find_PTM_atoms never raises: every node the traversal
\* processes is in to_see, so to_see.remove(orig) never fails, whatever the
\* molecule and the seed.
C12_LocateNeverRaises == pc # "KeyError in find_PTM_atoms"

====
